---- MODULE Spec2Model ----
(***************************************************************************)
(* A model of the multiagent simulation engine: the Environment (resource  *)
(* field), the Agent, and the Simulation that drives them, together with   *)
(* the process-wide random source of Python's `random` module they share.  *)
(*                                                                         *)
(* The constructor and step() are modelled at the granularity of their     *)
(* loops: one action per loop iteration, in the order the code runs them.  *)
(* The program is single-threaded, so exactly one call is in progress at   *)
(* a time; `pc` is the position of that call.                              *)
(***************************************************************************)
EXTENDS Integers, Sequences, FiniteSets, TLC

VARIABLES
    params,        \* the constructor's arguments: num_agents, grid_size, strategies, seed
    pc,            \* position of the call in progress ("idle": constructed, no call running)
    cell,          \* index of the (x, y) loops of _generate_resources / respawn_resources
    idx,           \* index of the agent loops of __init__ and step
    env,           \* the Environment: grid_size, resource_density, resources, step_count
    agents,        \* Simulation.agents, the roster, in creation order
    step_count,    \* Simulation.step_count
    history,       \* Simulation.history
    step_results,  \* the local step_results of the step() in progress
    pending,       \* the (i, j) iterations of the interaction loops still to run
    calls,         \* the Agent.interact calls made so far by the step() in progress
    collected,     \* the local `resource` of each iteration of the move loop so far
    call,          \* the caller's call in progress: step() or run(n), and run's results
    ret,           \* what the last completed call returned
    rng,           \* the state of the global random source: its seed and how far it was read
    tape,          \* the values the seeded random source yields, as far as they were read
    other,         \* a second Simulation object of the same process, not being called
    placed,        \* the positions the caller itself assigned to agents, by roster index
    horizon        \* the caller: how many steps it asks for at most, and whether it uses run()

vars == <<params, pc, cell, idx, env, agents, step_count, history, step_results,
          pending, calls, collected, call, ret, rng, tape, other, placed, horizon>>

----------------------------------------------------------------------------
(* Bounds of the model. *)

Invalid == 1          \* how many out-of-range values below the valid range are tried
MaxSteps == 2         \* step() calls per behaviour
MaxLongSteps == 10    \* step() calls per behaviour of a small simulation
MaxRun == 2           \* largest n of run(n)
RawLevels == 20       \* resolution of the random source: random() is u / RawLevels
NumSamples == 2       \* how many of the RawLevels values a draw is taken from
TwinSteps == 1        \* step() calls on each of two simulations alive together
PlaceMargin == 2      \* how far outside the grid a caller-assigned position may lie
MaxResources == 1     \* resources the random source lets exist at the same time
GreedySteps == 5      \* step() calls per behaviour of a simulation of greedy agents

(* Program constants. *)

DefaultDensity == 20  \* resource_density = 0.2, in hundredths
RespawnRate == 5      \* rate = 0.05, in hundredths
RespawnPeriod == 5    \* step_count % 5
MinValue == 1         \* random.randint(1, 10)
MaxValue == 10
CoopThreshold == 50   \* random.random() > 0.5, in hundredths

NoSeed == 0 - 1       \* seed = None
Seeds == {1}

DefaultStrategies == <<"random", "greedy", "cooperative">>

(* The strategy lists tried: the default, every single known tag, an       *)
(* unrecognised tag, mixed pairs, and the empty list.                      *)
StrategyLists ==
    { DefaultStrategies,
      <<"cooperative">>, <<"greedy">>, <<"random">>, <<"lazy">>,
      <<"cooperative", "greedy">>, <<"greedy", "cooperative">>,
      <<"random", "lazy">>, <<>> }

----------------------------------------------------------------------------
(* The random source.  Every draw reads one raw value u of the stream,     *)
(* 0 <= u < RawLevels, standing for the uniform variate u / RawLevels;     *)
(* random(), randint and choice are functions of it.                       *)

RawSamples == { (k * (RawLevels - 1)) \div (NumSamples - 1) : k \in 0..(NumSamples - 1) }

\* random.random() < pct / 100
RandomBelow(u, pct) == u * 100 < pct * RawLevels

\* random.random() > pct / 100
RandomAbove(u, pct) == u * 100 > pct * RawLevels

\* random.randint(a, b), a <= b
RandInt(u, a, b) == a + ((u * (b - a + 1)) \div RawLevels)

\* random.choice(seq)
Choice(u, seq) == seq[1 + ((u * Len(seq)) \div RawLevels)]

\* The draws `us` agree with what the seeded stream has already yielded.
Replays(us) ==
    IF rng.seed = NoSeed THEN TRUE
    ELSE \A k \in 1..Len(us) :
            rng.idx + k <= Len(tape[rng.seed]) => tape[rng.seed][rng.idx + k] = us[k]

\* The stream after the draws `us`: what was read for the first time is now fixed.
TapeAfter(us) ==
    IF rng.seed = NoSeed THEN tape
    ELSE [tape EXCEPT ![rng.seed] =
            IF rng.idx + Len(us) <= Len(@) THEN @
            ELSE SubSeq(@, 1, rng.idx) \o us]

RngAfter(us) ==
    IF rng.seed = NoSeed THEN rng ELSE [rng EXCEPT !.idx = @ + Len(us)]

Draw(us) == Replays(us) /\ tape' = TapeAfter(us) /\ rng' = RngAfter(us)

----------------------------------------------------------------------------
(* Agent *)

NewAgent(agent_id, strategy) ==
    [agent_id |-> agent_id, strategy |-> strategy, score |-> 0,
     position |-> <<0, 0>>, resources_collected |-> 0, interactions |-> 0]

Max(a, b) == IF a >= b THEN a ELSE b
Min(a, b) == IF a <= b THEN a ELSE b

\* The draws one move reads: two for random and cooperative, none otherwise.
MoveDraws(strategy) ==
    IF strategy \in {"random", "cooperative"}
    THEN { <<u1, u2>> : u1 \in RawSamples, u2 \in RawSamples }
    ELSE { <<>> }

\* A move whose greedy branch heads for the far corner instead of the center
MoveDeltaToCorner(strategy, position, grid_size, us) ==
    LET x == position[1]
        y == position[2]
        center == grid_size
    IN  IF strategy = "random"
        THEN <<Choice(us[1], <<0 - 1, 0, 1>>), Choice(us[2], <<0 - 1, 0, 1>>)>>
        ELSE IF strategy = "greedy"
        THEN << IF x < center THEN 1 ELSE (IF x > center THEN 0 - 1 ELSE 0),
                IF y < center THEN 1 ELSE (IF y > center THEN 0 - 1 ELSE 0) >>
        ELSE IF strategy = "cooperative"
        THEN << IF RandomAbove(us[1], CoopThreshold) THEN 1 ELSE 0,
                IF RandomAbove(us[2], CoopThreshold) THEN 1 ELSE 0 >>
        ELSE <<0, 0>>

\* A move whose default branch steps right instead of standing still
MoveDeltaDrifting(strategy, position, grid_size, us) ==
    LET x == position[1]
        y == position[2]
        center == grid_size \div 2
    IN  IF strategy = "random"
        THEN <<Choice(us[1], <<0 - 1, 0, 1>>), Choice(us[2], <<0 - 1, 0, 1>>)>>
        ELSE IF strategy = "greedy"
        THEN << IF x < center THEN 1 ELSE (IF x > center THEN 0 - 1 ELSE 0),
                IF y < center THEN 1 ELSE (IF y > center THEN 0 - 1 ELSE 0) >>
        ELSE IF strategy = "cooperative"
        THEN << IF RandomAbove(us[1], CoopThreshold) THEN 1 ELSE 0,
                IF RandomAbove(us[2], CoopThreshold) THEN 1 ELSE 0 >>
        ELSE <<1, 0>>

\* (dx, dy) of Agent.move
MoveDelta(strategy, position, grid_size, us) ==
    LET x == position[1]
        y == position[2]
        center == grid_size \div 2
    IN  IF strategy = "random"
        THEN <<Choice(us[1], <<0 - 1, 0, 1>>), Choice(us[2], <<0 - 1, 0, 1>>)>>
        ELSE IF strategy = "greedy"
        THEN << IF x < center THEN 1 ELSE (IF x > center THEN 0 - 1 ELSE 0),
                IF y < center THEN 1 ELSE (IF y > center THEN 0 - 1 ELSE 0) >>
        ELSE IF strategy = "cooperative"
        THEN << IF RandomAbove(us[1], CoopThreshold) THEN 1 ELSE 0,
                IF RandomAbove(us[2], CoopThreshold) THEN 1 ELSE 0 >>
        ELSE <<0, 0>>

\* A boundary constraint that forgets the lower edge
ClampAbove(v, grid_size) == Min(grid_size - 1, v)

\* A boundary constraint whose upper edge is one cell short
ClampShort(v, grid_size) == Max(0, Min(grid_size - 2, v))

\* The boundary constraint of Agent.move
Clamp(v, grid_size) == Max(0, Min(grid_size - 1, v))

\* A move that computes the new position and does not store it
AgentMoveDiscarded(a, grid_size, us) == a

\* Agent.move: the agent with its new position
AgentMove(a, grid_size, us) ==
    LET d == MoveDelta(a.strategy, a.position, grid_size, us)
    IN  [a EXCEPT !.position = << Clamp(a.position[1] + d[1], grid_size),
                                  Clamp(a.position[2] + d[2], grid_size) >>]

\* A collect_resource that adds the value and forgets to count the resource
AgentCollectUncounted(a, value) == [a EXCEPT !.score = @ + value]

\* Agent.collect_resource
AgentCollect(a, value) ==
    [a EXCEPT !.score = @ + value, !.resources_collected = @ + 1]

\* The branch of Agent.interact's payoff rule
PayoffBranch(s, o) ==
    IF s = "cooperative" /\ o = "cooperative" THEN "mutual"
    ELSE IF s = "greedy" /\ o = "greedy" THEN "compete"
    ELSE IF s = "cooperative" THEN "exploited"
    ELSE IF o = "cooperative" THEN "exploits"
    ELSE "mixed"

\* The draws one interaction reads: two in the fallback branch, none otherwise.
InteractDraws(s, o) ==
    IF PayoffBranch(s, o) = "mixed"
    THEN { <<u1, u2>> : u1 \in RawSamples, u2 \in RawSamples }
    ELSE { <<>> }

\* A payoff rule whose mutual branch pays the other agent less
GainsUneven(s, o, us) ==
    IF PayoffBranch(s, o) = "mutual" THEN <<3, 2>>
    ELSE IF PayoffBranch(s, o) = "compete" THEN <<0 - 1, 0 - 1>>
    ELSE IF PayoffBranch(s, o) = "exploited" THEN <<0, 5>>
    ELSE IF PayoffBranch(s, o) = "exploits" THEN <<5, 0>>
    ELSE <<RandInt(us[1], 0 - 1, 2), RandInt(us[2], 0 - 1, 2)>>

\* A payoff rule that pays the exploited agent instead of the exploiter
GainsSwapped(s, o, us) ==
    IF PayoffBranch(s, o) = "mutual" THEN <<3, 3>>
    ELSE IF PayoffBranch(s, o) = "compete" THEN <<0 - 1, 0 - 1>>
    ELSE IF PayoffBranch(s, o) = "exploited" THEN <<5, 0>>
    ELSE IF PayoffBranch(s, o) = "exploits" THEN <<0, 5>>
    ELSE <<RandInt(us[1], 0 - 1, 2), RandInt(us[2], 0 - 1, 2)>>

\* (self_gain, other_gain) of Agent.interact
Gains(s, o, us) ==
    LET b == PayoffBranch(s, o)
    IN  IF b = "mutual" THEN <<3, 3>>
        ELSE IF b = "compete" THEN <<0 - 1, 0 - 1>>
        ELSE IF b = "exploited" THEN <<0, 5>>
        ELSE IF b = "exploits" THEN <<5, 0>>
        ELSE <<RandInt(us[1], 0 - 1, 2), RandInt(us[2], 0 - 1, 2)>>

\* An interact that counts the interaction for self only
AgentInteractSelfCounted(roster, i, j, us) ==
    LET g == Gains(roster[i].strategy, roster[j].strategy, us)
        counted == [roster EXCEPT ![i].interactions = @ + 1]
    IN  [counted EXCEPT ![i].score = @ + g[1], ![j].score = @ + g[2]]

\* Agent.interact on roster entries i (self) and j (other): the roster afterwards
AgentInteract(roster, i, j, us) ==
    LET g == Gains(roster[i].strategy, roster[j].strategy, us)
        counted == [roster EXCEPT ![i].interactions = @ + 1,
                                  ![j].interactions = @ + 1]
    IN  [counted EXCEPT ![i].score = @ + g[1], ![j].score = @ + g[2]]

----------------------------------------------------------------------------
(* Environment *)

\* range(grid_size) x range(grid_size) has this many iterations
NumCells(grid_size) == IF grid_size > 0 THEN grid_size * grid_size ELSE 0

\* The (x, y) of iteration k of `for x in range(g): for y in range(g)`
CellAt(k, grid_size) == <<k \div grid_size, k % grid_size>>

\* A collect_resource_at whose default is 1: dict.pop(position, 1)
ResourceAtDefaultOne(resources, position) ==
    IF position \in DOMAIN resources THEN resources[position] ELSE 1

\* The value collect_resource_at returns: dict.pop(position, 0)
ResourceAt(resources, position) ==
    IF position \in DOMAIN resources THEN resources[position] ELSE 0

\* A collect_resource_at that reads the entry and leaves it: dict.get(position, 0)
CollectedKept(resources, position) == resources

\* The resources left by collect_resource_at: dict.pop(position, 0)
Collected(resources, position) ==
    [q \in (DOMAIN resources) \ {position} |-> resources[q]]

\* self.resources[(x, y)] = value
WithResource(resources, position, value) ==
    [q \in (DOMAIN resources) \cup {position} |->
        IF q = position THEN value ELSE resources[q]]

\* A resource value drawn from 0..10
ResourceValueFromZero(u) == RandInt(u, MinValue - 1, MaxValue)

\* random.randint(1, 10), the value of a new resource
ResourceValue(u) == RandInt(u, MinValue, MaxValue)

\* The random source is kept from filling the grid: a new resource appears
\* only while fewer than MaxResources exist.
Admits(u, pct, resources) ==
    RandomBelow(u, pct) => Cardinality(DOMAIN resources) < MaxResources

\* A respawn test that is off by one step
RespawnDueLate(count) == count % RespawnPeriod = 1

\* Whether Environment.step respawns at this value of its step counter
RespawnDue(count) == count % RespawnPeriod = 0

----------------------------------------------------------------------------
(* Simulation: grouping and pairing of step() *)

\* positions[agent.position].append(agent) for one agent: buckets keep the
\* order in which their position was first seen (dict insertion order).
AddToBuckets(buckets, k, position) ==
    IF \E m \in 1..Len(buckets) : buckets[m].position = position
    THEN [m \in 1..Len(buckets) |->
            IF buckets[m].position = position
            THEN [buckets[m] EXCEPT !.members = Append(@, k)]
            ELSE buckets[m]]
    ELSE Append(buckets, [position |-> position, members |-> <<k>>])

RECURSIVE BucketsUpTo(_, _)
BucketsUpTo(roster, k) ==
    IF k = 0 THEN <<>>
    ELSE AddToBuckets(BucketsUpTo(roster, k - 1), k, roster[k].position)

\* The dict `positions` of step(): a sequence of buckets of roster indices
GroupByPosition(roster) == BucketsUpTo(roster, Len(roster))

\* for j in range(i + 1, len(agents_at_pos)): the pairs (i, j), j from `from`
RECURSIVE PairsFrom(_, _, _)
PairsFrom(members, i, from) ==
    IF from > Len(members) THEN <<>>
    ELSE <<<<members[i], members[from]>>>> \o PairsFrom(members, i, from + 1)

\* An inner loop that starts at 0 instead of i + 1: every ordered pair
RECURSIVE PairsOfBucketOrdered(_, _)
PairsOfBucketOrdered(members, i) ==
    IF i > Len(members) THEN <<>>
    ELSE PairsFrom(members, i, 1) \o PairsOfBucketOrdered(members, i + 1)

\* for i in range(len(agents_at_pos)): for j in range(i + 1, ...)
RECURSIVE PairsOfBucket(_, _)
PairsOfBucket(members, i) ==
    IF i > Len(members) THEN <<>>
    ELSE PairsFrom(members, i, i + 1) \o PairsOfBucket(members, i + 1)

\* for position, agents_at_pos in positions.items(): if len(agents_at_pos) > 1
RECURSIVE PairsOfBuckets(_, _)
PairsOfBuckets(buckets, m) ==
    IF m > Len(buckets) THEN <<>>
    ELSE (IF Len(buckets[m].members) > 1
          THEN PairsOfBucket(buckets[m].members, 1)
          ELSE <<>>) \o PairsOfBuckets(buckets, m + 1)

\* Every interact call of one step, in the order the loops make them
InteractionPairs(roster) == PairsOfBuckets(GroupByPosition(roster), 1)

\* A move loop that stops after its first iteration
MovesDoneEarly(i, roster) == i > 1 \/ i > Len(roster)

\* Whether the move loop of step() has run for every agent
MovesDone(i, roster) == i > Len(roster)

\* The agent_scores of a step record
AgentScores(roster) ==
    [id \in { roster[k].agent_id : k \in DOMAIN roster } |->
        LET k == CHOOSE k \in DOMAIN roster : roster[k].agent_id = id
        IN  roster[k].score]

----------------------------------------------------------------------------
(* Simulation: rankings and statistics *)

\* An insertion that puts an agent ahead of the ranked agents of equal score
InsertRankedAheadOfTies(ranked, k, roster) ==
    LET n == Cardinality({ m \in DOMAIN ranked :
                             roster[ranked[m]].score > roster[k].score })
    IN  SubSeq(ranked, 1, n) \o <<k>> \o SubSeq(ranked, n + 1, Len(ranked))

\* The ranked roster indices with agent k added: behind every agent whose
\* score is at least its own, as a stable descending sort places it
InsertRanked(ranked, k, roster) ==
    LET n == Cardinality({ m \in DOMAIN ranked :
                             roster[ranked[m]].score >= roster[k].score })
    IN  SubSeq(ranked, 1, n) \o <<k>> \o SubSeq(ranked, n + 1, Len(ranked))

RECURSIVE RankedUpTo(_, _)
RankedUpTo(roster, k) ==
    IF k = 0 THEN <<>>
    ELSE InsertRanked(RankedUpTo(roster, k - 1), k, roster)

\* Simulation.get_rankings: sorted(agents, key=score, reverse=True), as the
\* sequence of roster indices of the agents returned
GetRankings(roster) == RankedUpTo(roster, Len(roster))

RECURSIVE SumScores(_, _)
SumScores(roster, k) ==
    IF k = 0 THEN 0 ELSE roster[k].score + SumScores(roster, k - 1)

RECURSIVE SumValues(_, _)
SumValues(resources, cells) ==
    IF cells = {} THEN 0
    ELSE LET c == CHOOSE c \in cells : TRUE
         IN  resources[c] + SumValues(resources, cells \ {c})

\* Environment.get_stats
EnvStats(e) ==
    [grid_size |-> e.grid_size, step_count |-> e.step_count,
     resource_count |-> Cardinality(DOMAIN e.resources),
     total_resource_value |-> SumValues(e.resources, DOMAIN e.resources)]

\* Agent.get_stats
AgentStats(a) ==
    [agent_id |-> a.agent_id, strategy |-> a.strategy, score |-> a.score,
     position |-> a.position, resources_collected |-> a.resources_collected,
     interactions |-> a.interactions]

\* A get_stats that divides by len(scores) whether or not there are scores
GetStatsUnguarded(roster, e, steps) ==
    LET scores == { roster[k].score : k \in DOMAIN roster }
        total == SumScores(roster, Len(roster))
    IN  [steps_completed |-> steps,
         num_agents |-> Len(roster),
         environment |-> EnvStats(e),
         total_score |-> total,
         average_score |-> <<total, Len(roster)>>,
         max_score |-> IF Len(roster) > 0
                       THEN CHOOSE s \in scores : \A t \in scores : t <= s ELSE 0,
         min_score |-> IF Len(roster) > 0
                       THEN CHOOSE s \in scores : \A t \in scores : s <= t ELSE 0,
         agent_stats |-> [k \in DOMAIN roster |-> AgentStats(roster[k])]]

\* Simulation.get_stats; the average is the fraction <<numerator, denominator>>
GetStats(roster, e, steps) ==
    LET scores == { roster[k].score : k \in DOMAIN roster }
        total == SumScores(roster, Len(roster))
    IN  [steps_completed |-> steps,
         num_agents |-> Len(roster),
         environment |-> EnvStats(e),
         total_score |-> total,
         average_score |-> IF Len(roster) > 0 THEN <<total, Len(roster)>> ELSE <<0, 1>>,
         max_score |-> IF Len(roster) > 0
                       THEN CHOOSE s \in scores : \A t \in scores : t <= s ELSE 0,
         min_score |-> IF Len(roster) > 0
                       THEN CHOOSE s \in scores : \A t \in scores : s <= t ELSE 0,
         agent_stats |-> [k \in DOMAIN roster |-> AgentStats(roster[k])]]

----------------------------------------------------------------------------
(* Initial states: the arguments of the constructor call about to run. *)

NoResources == [q \in {} |-> 0]

NoEnvironment ==
    [grid_size |-> 0, resource_density |-> 0, resources |-> NoResources, step_count |-> 0]

NoResults ==
    [step |-> 0, resources_collected |-> 0, interactions |-> 0, agent_scores |-> <<>>]

NoSimulation ==
    [present |-> FALSE, params |-> <<>>, env |-> NoEnvironment, agents |-> <<>>,
     step_count |-> 0, history |-> <<>>]

\* The state before Simulation(...) runs with arguments from P, for a caller
\* that asks for at most h steps, by step() and (if r) by run(n)
Start(P, h, r) ==
    /\ params \in P
    /\ horizon = [steps |-> h, uses_run |-> r]
    /\ pc = "new"
    /\ cell = 0
    /\ idx = 0
    /\ env = NoEnvironment
    /\ agents = <<>>
    /\ step_count = 0
    /\ history = <<>>
    /\ step_results = NoResults
    /\ pending = <<>>
    /\ calls = <<>>
    /\ collected = <<>>
    /\ call = [op |-> "none", n |-> 0, start |-> 0, results |-> <<>>]
    /\ ret = [op |-> "none", n |-> 0, start |-> 0, results |-> <<>>]
    /\ rng = [seed |-> NoSeed, idx |-> 0]
    /\ tape = [s \in Seeds |-> <<>>]
    /\ other = NoSimulation
    /\ placed = <<>>

\* Every argument combination within the bounds, out-of-range ones included
AllParams ==
    [num_agents : ((0 - Invalid)..0) \cup {1, 2},
     grid_size : ((0 - Invalid)..0) \cup {1, 2},
     strategies : StrategyLists,
     seed : {NoSeed}]

\* Small simulations, run for long enough to see resources respawn twice
LongParams ==
    [num_agents : {1},
     grid_size : {1, 2},
     strategies : {<<"lazy">>, <<"greedy">>},
     seed : {NoSeed}]

\* Three agents, stepped once: buckets of one, two and three agents
CrowdParams ==
    [num_agents : {3},
     grid_size : {1, 2},
     strategies : {DefaultStrategies, <<"greedy", "cooperative">>, <<"lazy">>},
     seed : {NoSeed}]

\* Any simulation called a few times, a small one stepped in a loop as main()
\* does, or a crowded one stepped once
Init ==
    \/ Start(AllParams, MaxSteps, TRUE)
    \/ Start(LongParams, MaxLongSteps, FALSE)
    \/ Start(CrowdParams, 1, FALSE)

----------------------------------------------------------------------------
(* Simulation.__init__ *)

\* random.seed(seed) if given, then Environment.__init__ up to _generate_resources
Construct ==
    /\ pc = "new"
    /\ rng' = IF params.seed # NoSeed THEN [seed |-> params.seed, idx |-> 0] ELSE rng
    /\ env' = [grid_size |-> params.grid_size, resource_density |-> DefaultDensity,
               resources |-> NoResources, step_count |-> 0]
    /\ cell' = 0
    /\ pc' = "generate"
    /\ UNCHANGED <<params, idx, agents, step_count, history, step_results, pending,
                   calls, collected, call, ret, tape, other, placed, horizon>>

\* One iteration of the loops of Environment._generate_resources
GenerateCell ==
    /\ pc = "generate"
    /\ cell < NumCells(env.grid_size)
    /\ \E u1 \in RawSamples :
          /\ Admits(u1, env.resource_density, env.resources)
          /\ IF RandomBelow(u1, env.resource_density)
             THEN \E u2 \in RawSamples :
                     /\ Draw(<<u1, u2>>)
                     /\ env' = [env EXCEPT !.resources =
                                  WithResource(@, CellAt(cell, env.grid_size), ResourceValue(u2))]
             ELSE Draw(<<u1>>) /\ UNCHANGED env
    /\ cell' = cell + 1
    /\ UNCHANGED <<params, pc, idx, agents, step_count, history, step_results, pending,
                   calls, collected, call, ret, other, placed, horizon>>

\* self.agents = [] and the default strategies
EnvReady ==
    /\ pc = "generate"
    /\ cell >= NumCells(env.grid_size)
    /\ agents' = <<>>
    /\ idx' = 0
    /\ pc' = "agents"
    /\ UNCHANGED <<params, cell, env, step_count, history, step_results, pending,
                   calls, collected, call, ret, rng, tape, other, placed, horizon>>

\* Whether creating an agent raises: i % len(strategies) with no strategy, or
\* random.randint(0, grid_size - 1) over an empty range
CreateRaises(p) == Len(p.strategies) = 0 \/ p.grid_size - 1 < 0

\* One iteration of the agent-creating loop
CreateAgent ==
    /\ pc = "agents"
    /\ idx < params.num_agents
    /\ IF CreateRaises(params)
       THEN /\ pc' = "failed"
            /\ UNCHANGED <<agents, idx, rng, tape>>
       ELSE /\ \E u1 \in RawSamples, u2 \in RawSamples :
                  /\ Draw(<<u1, u2>>)
                  /\ agents' = Append(agents,
                        [NewAgent(idx, params.strategies[(idx % Len(params.strategies)) + 1])
                            EXCEPT !.position = << RandInt(u1, 0, params.grid_size - 1),
                                                   RandInt(u2, 0, params.grid_size - 1) >>])
            /\ idx' = idx + 1
            /\ pc' = pc
    /\ UNCHANGED <<params, cell, env, step_count, history, step_results, pending,
                   calls, collected, call, ret, other, placed, horizon>>

\* self.step_count = 0; self.history = []: the constructor returns
Constructed ==
    /\ pc = "agents"
    /\ idx >= params.num_agents
    /\ step_count' = 0
    /\ history' = <<>>
    /\ pc' = "idle"
    /\ UNCHANGED <<params, cell, idx, env, agents, step_results, pending,
                   calls, collected, call, ret, rng, tape, other, placed, horizon>>

----------------------------------------------------------------------------
(* Simulation.step and Simulation.run *)

\* The first statement of step(): a fresh step_results
BeginStep ==
    /\ step_results' = [step |-> step_count, resources_collected |-> 0,
                        interactions |-> 0, agent_scores |-> <<>>]
    /\ idx' = 1
    /\ calls' = <<>>
    /\ collected' = <<>>
    /\ pending' = <<>>
    /\ pc' = "move"

\* The caller calls step()
CallStep ==
    /\ pc = "idle"
    /\ step_count < horizon.steps
    /\ call' = [op |-> "step", n |-> 1, start |-> step_count, results |-> <<>>]
    /\ BeginStep
    /\ UNCHANGED <<params, cell, env, agents, step_count, history, ret, rng, tape,
                   other, placed, horizon>>

\* The caller calls run(n)
CallRun ==
    /\ pc = "idle"
    /\ horizon.uses_run
    /\ \E n \in (0 - Invalid)..MaxRun :
          /\ step_count + n <= horizon.steps
          /\ call' = [op |-> "run", n |-> n, start |-> step_count, results |-> <<>>]
    /\ pc' = "run"
    /\ UNCHANGED <<params, cell, idx, env, agents, step_count, history, step_results,
                   pending, calls, collected, ret, rng, tape, other, placed, horizon>>

\* A loop of run() that makes one iteration too few
RunFinishedEarly(c) == Len(c.results) >= c.n - 1

\* Whether `for _ in range(num_steps)` has no iteration left
RunFinished(c) == Len(c.results) >= c.n

\* for _ in range(num_steps): the next iteration calls step()
RunStep ==
    /\ pc = "run"
    /\ ~RunFinished(call)
    /\ BeginStep
    /\ UNCHANGED <<params, cell, env, agents, step_count, history, call, ret, rng, tape,
                   other, placed, horizon>>

\* run returns its results
RunReturn ==
    /\ pc = "run"
    /\ RunFinished(call)
    /\ ret' = call
    /\ pc' = "idle"
    /\ UNCHANGED <<params, cell, idx, env, agents, step_count, history, step_results,
                   pending, calls, collected, call, rng, tape, other, placed, horizon>>

\* One iteration of the first loop of step(): move, then collect
MoveAgent ==
    /\ pc = "move"
    /\ ~MovesDone(idx, agents)
    /\ \E us \in MoveDraws(agents[idx].strategy) :
          /\ Draw(us)
          /\ LET moved == AgentMove(agents[idx], env.grid_size, us)
                 resource == ResourceAt(env.resources, moved.position)
             IN  /\ env' = [env EXCEPT !.resources = Collected(@, moved.position)]
                 /\ collected' = Append(collected, resource)
                 /\ IF resource > 0
                    THEN /\ agents' = [agents EXCEPT ![idx] = AgentCollect(moved, resource)]
                         /\ step_results' = [step_results EXCEPT !.resources_collected = @ + 1]
                    ELSE /\ agents' = [agents EXCEPT ![idx] = moved]
                         /\ UNCHANGED step_results
    /\ idx' = idx + 1
    /\ UNCHANGED <<params, pc, cell, step_count, history, pending, calls, call, ret,
                   other, placed, horizon>>

\* The grouping loop of step(): the buckets fix the interactions to make
GroupAgents ==
    /\ pc = "move"
    /\ MovesDone(idx, agents)
    /\ pending' = InteractionPairs(agents)
    /\ pc' = "interact"
    /\ UNCHANGED <<params, cell, idx, env, agents, step_count, history, step_results,
                   calls, collected, call, ret, rng, tape, other, placed, horizon>>

\* One iteration of the interaction loops: agents_at_pos[i].interact(agents_at_pos[j])
Interact ==
    /\ pc = "interact"
    /\ pending # <<>>
    /\ LET i == Head(pending)[1]
           j == Head(pending)[2]
       IN  \E us \in InteractDraws(agents[i].strategy, agents[j].strategy) :
              /\ Draw(us)
              /\ agents' = AgentInteract(agents, i, j, us)
              /\ calls' = Append(calls, <<i, j>>)
    /\ step_results' = [step_results EXCEPT !.interactions = @ + 1]
    /\ pending' = Tail(pending)
    /\ UNCHANGED <<params, pc, cell, idx, env, step_count, history, collected, call, ret,
                   other, placed, horizon>>

\* self.environment.step(): count, and respawn when due
EnvStep ==
    /\ pc = "interact"
    /\ pending = <<>>
    /\ env' = [env EXCEPT !.step_count = @ + 1]
    /\ IF RespawnDue(env.step_count + 1)
       THEN pc' = "respawn" /\ cell' = 0
       ELSE pc' = "record" /\ cell' = cell
    /\ UNCHANGED <<params, idx, agents, step_count, history, step_results, pending,
                   calls, collected, call, ret, rng, tape, other, placed, horizon>>

\* One iteration of the loops of Environment.respawn_resources
RespawnCell ==
    /\ pc = "respawn"
    /\ cell < NumCells(env.grid_size)
    /\ IF CellAt(cell, env.grid_size) \in DOMAIN env.resources
       THEN UNCHANGED <<env, rng, tape>>
       ELSE \E u1 \in RawSamples :
               /\ Admits(u1, RespawnRate, env.resources)
               /\ IF RandomBelow(u1, RespawnRate)
                  THEN \E u2 \in RawSamples :
                          /\ Draw(<<u1, u2>>)
                          /\ env' = [env EXCEPT !.resources =
                                       WithResource(@, CellAt(cell, env.grid_size), ResourceValue(u2))]
                  ELSE Draw(<<u1>>) /\ UNCHANGED env
    /\ cell' = cell + 1
    /\ UNCHANGED <<params, pc, idx, agents, step_count, history, step_results, pending,
                   calls, collected, call, ret, other, placed, horizon>>

\* respawn_resources returns
RespawnDone ==
    /\ pc = "respawn"
    /\ cell >= NumCells(env.grid_size)
    /\ pc' = "record"
    /\ UNCHANGED <<params, cell, idx, env, agents, step_count, history, step_results,
                   pending, calls, collected, call, ret, rng, tape, other, placed, horizon>>

\* The end of step(): record the scores, count the step, append to the history, return
Record ==
    /\ pc = "record"
    /\ LET result == [step_results EXCEPT !.agent_scores = AgentScores(agents)]
       IN  /\ step_results' = result
           /\ history' = Append(history, result)
           /\ IF call.op = "run"
              THEN /\ call' = [call EXCEPT !.results = Append(@, result)]
                   /\ pc' = "run"
                   /\ UNCHANGED ret
              ELSE /\ ret' = [call EXCEPT !.results = <<result>>]
                   /\ pc' = "idle"
                   /\ UNCHANGED call
    /\ step_count' = step_count + 1
    /\ UNCHANGED <<params, cell, idx, env, agents, pending, calls, collected, rng, tape,
                   other, placed, horizon>>

Next ==
    \/ Construct
    \/ GenerateCell
    \/ EnvReady
    \/ CreateAgent
    \/ Constructed
    \/ CallStep
    \/ CallRun
    \/ RunStep
    \/ RunReturn
    \/ MoveAgent
    \/ GroupAgents
    \/ Interact
    \/ EnvStep
    \/ RespawnCell
    \/ RespawnDone
    \/ Record

Spec == Init /\ [][Next]_vars

----------------------------------------------------------------------------
(* A caller that assigns agent.position itself before the first step, as   *)
(* the constructor does: Agent.position is a plain attribute.              *)

PlacePositions(grid_size) ==
    LET range == (0 - PlaceMargin)..(grid_size - 1 + PlaceMargin)
    IN  { <<x, y>> : x \in range, y \in range }

Place ==
    /\ pc = "idle"
    /\ history = <<>>
    /\ \E i \in (DOMAIN agents) \ (DOMAIN placed), p \in PlacePositions(env.grid_size) :
          /\ agents' = [agents EXCEPT ![i].position = p]
          /\ placed' = [k \in (DOMAIN placed) \cup {i} |-> IF k = i THEN p ELSE placed[k]]
    /\ UNCHANGED <<params, pc, cell, idx, env, step_count, history, step_results,
                   pending, calls, collected, call, ret, rng, tape, other, horizon>>

\* One agent of every strategy tag, on grids of size 1, 2 and 3
PlacedParams ==
    [num_agents : {1},
     grid_size : {1, 2, 3},
     strategies : {<<"random">>, <<"greedy">>, <<"cooperative">>, <<"lazy">>},
     seed : {NoSeed}]

InitPlaced == Start(PlacedParams, MaxSteps, FALSE)

\* With one agent and fewer than five steps the other actions are never enabled.
NextPlaced ==
    \/ Construct
    \/ GenerateCell
    \/ EnvReady
    \/ CreateAgent
    \/ Constructed
    \/ Place
    \/ CallStep
    \/ MoveAgent
    \/ GroupAgents
    \/ EnvStep
    \/ Record

SpecPlaced == InitPlaced /\ [][NextPlaced]_vars

----------------------------------------------------------------------------
(* Two Simulation objects in one process.  They share the global random    *)
(* source; the caller calls one of them at a time.                         *)

\* The Simulation object the variables describe
ThisSimulation ==
    [present |-> TRUE, params |-> params, env |-> env, agents |-> agents,
     step_count |-> step_count, history |-> history]

\* The caller constructs a second Simulation with the same arguments
ConstructTwin ==
    /\ pc = "idle"
    /\ ~other.present
    /\ other' = ThisSimulation
    /\ pc' = "new"
    /\ UNCHANGED <<params, cell, idx, env, agents, step_count, history, step_results,
                   pending, calls, collected, call, ret, rng, tape, placed, horizon>>

\* The caller turns to the other Simulation object
Switch ==
    /\ pc = "idle"
    /\ other.present
    /\ other' = ThisSimulation
    /\ env' = other.env
    /\ agents' = other.agents
    /\ step_count' = other.step_count
    /\ history' = other.history
    /\ UNCHANGED <<params, pc, cell, idx, step_results, pending, calls, collected, call, ret,
                   rng, tape, placed, horizon>>

\* Two agents that always meet, one of them moving at random, built from a seed
TwinParams ==
    [num_agents : {2},
     grid_size : {1},
     strategies : {<<"random", "lazy">>, <<"cooperative">>},
     seed : Seeds]

InitTwin == Start(TwinParams, TwinSteps, FALSE)

\* With one step per simulation the other actions are never enabled.
NextTwin ==
    \/ Construct
    \/ GenerateCell
    \/ EnvReady
    \/ CreateAgent
    \/ Constructed
    \/ ConstructTwin
    \/ Switch
    \/ CallStep
    \/ MoveAgent
    \/ GroupAgents
    \/ Interact
    \/ EnvStep
    \/ Record

SpecTwin == InitTwin /\ [][NextTwin]_vars

----------------------------------------------------------------------------
(* A caller that steps a simulation with greedy agents in a loop, as main() *)
(* does.  The program is sequential and runs every call to its end, and     *)
(* the caller goes on calling step() until it has made GreedySteps calls.   *)

\* Two or three greedy agents, or a greedy agent and one that stands still,
\* on grids of size 1, 2 and 4 (where the center is two moves from a corner)
GreedyParams ==
    [num_agents : {2, 3},
     grid_size : {1, 2, 4},
     strategies : {<<"greedy">>},
     seed : {NoSeed}]
    \cup
    [num_agents : {2},
     grid_size : {1, 2, 4},
     strategies : {<<"greedy", "lazy">>},
     seed : {NoSeed}]

InitGreedy == Start(GreedyParams, GreedySteps, FALSE)

NextGreedy ==
    \/ Construct
    \/ GenerateCell
    \/ EnvReady
    \/ CreateAgent
    \/ Constructed
    \/ CallStep
    \/ MoveAgent
    \/ GroupAgents
    \/ Interact
    \/ EnvStep
    \/ RespawnCell
    \/ RespawnDone
    \/ Record

SpecGreedy == InitGreedy /\ [][NextGreedy]_vars /\ WF_vars(NextGreedy)

----------------------------------------------------------------------------
(* Properties *)

\* The step() in progress has finished its move loop
InLaterPhase == pc \in {"interact", "respawn", "record"}

\* No call is in progress on a constructed Simulation, and a step has completed
AfterStep == pc \in {"idle", "run"} /\ history # <<>>

\* The unordered pairs of distinct agents at the same position, earlier agent first
ColocatedPairs(roster) ==
    { pr \in (DOMAIN roster) \X (DOMAIN roster) :
        pr[1] < pr[2] /\ roster[pr[1]].position = roster[pr[2]].position }

CallSet == { calls[k] : k \in DOMAIN calls }

(* C1: within a step() call, every agent of the roster has been moved       *)
(* before the first Agent.interact call is made, and every interact call    *)
(* made or still to make is between two agents whose positions, now that    *)
(* all have moved, are equal.                                               *)
C1_MovesBeforeInteractions ==
    (pc = "interact" \/ (InLaterPhase /\ calls # <<>>)) =>
        /\ idx > Len(agents)
        /\ Len(collected) = Len(agents)
        /\ \A pr \in CallSet \cup { pending[k] : k \in DOMAIN pending } :
              agents[pr[1]].position = agents[pr[2]].position

\* An interaction has been made in a roster of three where one agent stands apart
C1_Witness ==
    /\ pc = "interact"
    /\ Len(agents) = 3
    /\ Len(calls) = 1
    /\ Cardinality({ agents[k].position : k \in DOMAIN agents }) = 2

(* C2: when the interaction loops of a step() call have ended, interact has *)
(* been called exactly once for each unordered pair of distinct agents that *)
(* share a position, the earlier of the roster as self, and for no other    *)
(* pair; the step's interactions count is the number of these pairs, and    *)
(* it is the count of the record appended to the history.                   *)
C2_OncePerColocatedPair ==
    /\ (pc \in {"respawn", "record"} \/ AfterStep) =>
          /\ CallSet = ColocatedPairs(agents)
          /\ Len(calls) = Cardinality(ColocatedPairs(agents))
          /\ step_results.interactions = Cardinality(ColocatedPairs(agents))
    /\ AfterStep => history[Len(history)].interactions = step_results.interactions

\* Three agents ended their move on one cell: three interactions
C2_Witness ==
    /\ pc = "record"
    /\ Len(agents) = 3
    /\ Len(calls) = 3
    /\ step_results.interactions = 3

(* C3: two Simulations constructed with the same arguments and the same    *)
(* seed, each advanced by the same number of step() calls, give the same    *)
(* get_stats() output.                                                      *)
C3_SameSeedSameStats ==
    (/\ pc = "idle"
     /\ other.present
     /\ params.seed # NoSeed
     /\ other.params = params
     /\ other.step_count = step_count) =>
        GetStats(agents, env, step_count) = GetStats(other.agents, other.env, other.step_count)

\* The constructor's arguments are in range
ValidParams == params.grid_size > 0 /\ params.num_agents >= 0

(* C4, as claimed: between calls len(history) equals step_count, and a      *)
(* run(n), n >= 1, on a simulation built from in-range arguments returns    *)
(* exactly n results and leaves the step counter and the history length     *)
(* equal to n.                                                              *)
C4_RunLeavesCountAtN ==
    /\ pc \in {"idle", "run", "move", "interact", "respawn", "record"} =>
          Len(history) = step_count
    /\ (pc = "idle" /\ ret.op = "run" /\ ret.n >= 1 /\ ValidParams) =>
          /\ Len(ret.results) = ret.n
          /\ step_count = ret.n
          /\ Len(history) = ret.n

(* C4, amended: between calls len(history) equals step_count, and a run(n), *)
(* n >= 0, returns exactly n results, the records it appended to the        *)
(* history, and leaves the step counter and the history length n greater    *)
(* than they were before the call.                                          *)
C4_RunAddsN ==
    /\ pc \in {"idle", "run", "move", "interact", "respawn", "record"} =>
          Len(history) = step_count
    /\ (pc = "idle" /\ ret.op = "run" /\ ret.n >= 0) =>
          /\ Len(ret.results) = ret.n
          /\ step_count = ret.start + ret.n
          /\ Len(history) = ret.start + ret.n
          /\ ret.results = SubSeq(history, ret.start + 1, ret.start + ret.n)

\* run(1) has returned on a simulation that had already made a step
C4_Witness ==
    /\ pc = "idle"
    /\ ret.op = "run"
    /\ ret.n = 1
    /\ ret.start = 1
    /\ Len(ret.results) = 1

(* C5: resources respawn in exactly the step() calls that are the 5th,     *)
(* 10th, ... of the simulation, the ones that bring the field's step        *)
(* counter to a multiple of 5: the respawn loop runs only in such a call,   *)
(* a call that skips it is not such a call, and outside the respawn loop    *)
(* (and the constructor's generation) no resource entry is added.           *)
C5_RespawnEveryFifthStep ==
    /\ [](pc = "respawn" =>
            /\ env.step_count % 5 = 0
            /\ env.step_count = step_count + 1)
    /\ [][ /\ (pc = "interact" /\ pc' = "record") =>
                 (env'.step_count % 5 # 0 /\ env'.step_count = step_count + 1)
           /\ (pc = "interact" /\ env'.step_count # env.step_count) =>
                 pc' \in {"respawn", "record"}
           /\ ~((DOMAIN env'.resources) \subseteq (DOMAIN env.resources)) =>
                 pc \in {"generate", "respawn"} ]_vars

\* The tenth step() call has respawned a resource
C5_Witness ==
    /\ pc = "respawn"
    /\ step_count = 9
    /\ env.step_count = 10
    /\ cell > 0
    /\ CellAt(cell - 1, env.grid_size) \in DOMAIN env.resources
    /\ collected # <<>>

\* The score of agent `id` when the last completed step began
ScoreBefore(id) ==
    IF Len(history) = 1 THEN 0 ELSE history[Len(history) - 1].agent_scores[id]

\* The last completed step was made by two cooperative agents, alone, that met
TwoCooperatorsMet ==
    /\ AfterStep
    /\ Len(agents) = 2
    /\ \A k \in DOMAIN agents : agents[k].strategy = "cooperative"
    /\ agents[1].position = agents[2].position

(* C6, as claimed: when two cooperative agents, the only agents, stand on   *)
(* the same cell after the move phase of a step, that step reports          *)
(* interactions = 1 and the score of each rises over the step by exactly 3. *)
C6_BothGainThree ==
    TwoCooperatorsMet =>
        /\ history[Len(history)].interactions = 1
        /\ \A k \in DOMAIN agents :
              agents[k].score - ScoreBefore(agents[k].agent_id) = 3

(* C6, amended: ... that step reports interactions = 1 and the score of     *)
(* each rises over the step by exactly 3 plus the value of the resource it  *)
(* collected in that step's move phase (0 when it collected none).          *)
C6_BothGainThreePlusCollected ==
    TwoCooperatorsMet =>
        /\ history[Len(history)].interactions = 1
        /\ \A k \in DOMAIN agents :
              /\ history[Len(history)].agent_scores[agents[k].agent_id] = agents[k].score
              /\ agents[k].score - ScoreBefore(agents[k].agent_id) = 3 + collected[k]

\* Two cooperators met on a cell whose resource the first of them collected
C6_Witness ==
    /\ TwoCooperatorsMet
    /\ collected[1] > 0
    /\ collected[2] = 0

(* C7: a Simulation constructed with grid_size <= 0, num_agents < 0 or a    *)
(* resource density outside [0, 1] fails in its constructor: it never       *)
(* becomes an engine on which step() can be called.                         *)
C7_OutOfRangeFailsFast ==
    (\/ params.grid_size <= 0
     \/ params.num_agents < 0
     \/ env.resource_density < 0
     \/ env.resource_density > 100) =>
        pc \in {"new", "generate", "agents", "failed"}

\* Whether a position lies inside the grid
InGrid(position, grid_size) ==
    /\ 0 <= position[1] /\ position[1] < grid_size
    /\ 0 <= position[2] /\ position[2] < grid_size

\* Agent k has been moved by step() since the caller could last assign its position
MovedSincePlaced(k) ==
    \/ history # <<>>
    \/ InLaterPhase
    \/ (pc = "move" /\ idx > k)

(* C8: on a grid of size > 0, whatever the strategy tag and wherever the    *)
(* agent stood before, in or out of the grid, a move leaves it at a         *)
(* position with 0 <= x, y < grid_size; so does the constructor; hence      *)
(* every agent is inside the grid after construction and after any number   *)
(* of steps, unless the caller has put it elsewhere and it has not moved    *)
(* since.                                                                   *)
C8_PositionsInGrid ==
    \A k \in DOMAIN agents :
        \/ InGrid(agents[k].position, env.grid_size)
        \/ (k \in DOMAIN placed /\ ~MovedSincePlaced(k))

\* An agent the caller had put outside the grid has been moved into it
C8_Witness ==
    /\ pc = "move"
    /\ idx = 2
    /\ 1 \in DOMAIN placed
    /\ ~InGrid(placed[1], env.grid_size)
    /\ InGrid(agents[1].position, env.grid_size)
    /\ agents[1].strategy = "random"

(* C9: at every point of the constructor and of every step, each entry of   *)
(* the resource field has a value from 1 to 10, never 0 or less; and the    *)
(* cell an agent has just collected from has no entry.                      *)
C9_ResourceValuesPositive ==
    /\ \A p \in DOMAIN env.resources :
          env.resources[p] >= 1 /\ env.resources[p] <= 10
    /\ (pc = "move" /\ idx > 1) =>
          agents[idx - 1].position \notin DOMAIN env.resources

\* A resource has just been collected by an agent
C9_Witness ==
    /\ pc = "move"
    /\ idx > 1
    /\ collected[idx - 1] >= 1
    /\ env.step_count >= 5

(* C10: an Agent.interact call raises the interactions counter of each of   *)
(* its two participants by exactly 1, whichever payoff branch it takes,     *)
(* and no other agent's counter.                                            *)
C10_InteractCountsBoth ==
    [][ calls' # calls /\ calls' # <<>> =>
          LET i == calls'[Len(calls')][1]
              j == calls'[Len(calls')][2]
          IN  /\ i # j
              /\ agents'[i].interactions = agents[i].interactions + 1
              /\ agents'[j].interactions = agents[j].interactions + 1
              /\ \A k \in (DOMAIN agents) \ {i, j} :
                    agents'[k].interactions = agents[k].interactions ]_vars

\* An interaction of the fallback branch has been made
C10_Witness ==
    /\ pc = "interact"
    /\ calls # <<>>
    /\ LET pr == calls[Len(calls)]
       IN  /\ PayoffBranch(agents[pr[1]].strategy, agents[pr[2]].strategy) = "mixed"
           /\ agents[pr[1]].interactions = 1
           /\ agents[pr[2]].interactions = 1

\* The strategy tags tried: the three known ones and an unrecognised one
StrategyTags == {"random", "greedy", "cooperative", "lazy"}

\* Whether the gains (gs, go) of self and other are what the payoff table
\* gives for the tags s of self and o of other
InPayoffTable(s, o, gs, go) ==
    IF s = "cooperative" /\ o = "cooperative" THEN gs = 3 /\ go = 3
    ELSE IF s = "greedy" /\ o = "greedy" THEN gs = 0 - 1 /\ go = 0 - 1
    ELSE IF s = "cooperative" THEN gs = 0 /\ go = 5
    ELSE IF o = "cooperative" THEN gs = 5 /\ go = 0
    ELSE gs \in (0 - 1)..2 /\ go \in (0 - 1)..2

(* C11: for every pair of strategy tags (self, other) the gains of          *)
(* Agent.interact are those of the payoff table: (3, 3) for two             *)
(* cooperators, (-1, -1) for two greedy agents, (0, 5) for a cooperator     *)
(* meeting a non-cooperator, (5, 0) for a non-cooperator meeting a          *)
(* cooperator, and otherwise two integers from -1 to 2; and every interact  *)
(* call of a step adds exactly such gains to the two scores.                *)
C11_PayoffTable ==
    /\ [](\A s \in StrategyTags, o \in StrategyTags, u1 \in RawSamples, u2 \in RawSamples :
            LET g == Gains(s, o, <<u1, u2>>)
            IN  InPayoffTable(s, o, g[1], g[2]))
    /\ [][ calls' # calls /\ calls' # <<>> =>
             LET i == calls'[Len(calls')][1]
                 j == calls'[Len(calls')][2]
             IN  InPayoffTable(agents[i].strategy, agents[j].strategy,
                               agents'[i].score - agents[i].score,
                               agents'[j].score - agents[j].score) ]_vars

\* In the first step a fallback interaction gave its two agents different gains
C11_Witness ==
    /\ pc = "interact"
    /\ history = <<>>
    /\ Len(calls) = 1
    /\ LET i == calls[1][1]
           j == calls[1][2]
       IN  /\ PayoffBranch(agents[i].strategy, agents[j].strategy) = "mixed"
           /\ agents[i].score - collected[i] = 0 - 1
           /\ agents[j].score - collected[j] = 2

Abs(v) == IF v >= 0 THEN v ELSE 0 - v

\* The center cell greedy agents head for
Center(grid_size) == <<grid_size \div 2, grid_size \div 2>>

\* The Chebyshev distance of a position to the center of the grid
CenterDistance(position, grid_size) ==
    Max(Abs(position[1] - Center(grid_size)[1]), Abs(position[2] - Center(grid_size)[2]))

\* This step is an iteration of the move loop of step(), for agent idx
MoveStep == pc = "move" /\ idx' = idx + 1

(* C12: on a grid of size > 0, from any starting position, in the grid or   *)
(* outside it, one move of a greedy agent never increases its Chebyshev     *)
(* distance to the center (grid_size // 2, grid_size // 2).                 *)
C12_GreedyNeverFarther ==
    [][ (MoveStep /\ agents[idx].strategy = "greedy") =>
           CenterDistance(agents'[idx].position, env.grid_size)
              <= CenterDistance(agents[idx].position, env.grid_size) ]_vars

\* A greedy agent put outside the grid has moved and is nearer to the center
C12_Witness ==
    /\ pc = "move"
    /\ idx = 2
    /\ history = <<>>
    /\ agents[1].strategy = "greedy"
    /\ 1 \in DOMAIN placed
    /\ ~InGrid(placed[1], env.grid_size)
    /\ env.grid_size = 3
    /\ CenterDistance(agents[1].position, env.grid_size)
          < CenterDistance(placed[1], env.grid_size)

(* C13: when the cell an agent has moved to holds no resource,              *)
(* collect_resource_at returns exactly 0 and leaves the resource field      *)
(* unchanged, the agent's score and its resources_collected counter are     *)
(* not changed, and the step's resources_collected count is not             *)
(* incremented.                                                             *)
C13_EmptyCellCollectsNothing ==
    [][ (MoveStep /\ agents'[idx].position \notin DOMAIN env.resources) =>
           /\ collected' = Append(collected, 0)
           /\ env' = env
           /\ agents'[idx].score = agents[idx].score
           /\ agents'[idx].resources_collected = agents[idx].resources_collected
           /\ step_results' = step_results ]_vars

\* An agent has landed on an empty cell while another cell holds a resource
C13_Witness ==
    /\ pc = "move"
    /\ idx > 1
    /\ collected[idx - 1] = 0
    /\ agents[idx - 1].resources_collected = 0
    /\ agents[idx - 1].position \notin DOMAIN env.resources
    /\ DOMAIN env.resources # {}

\* The constructor has returned a Simulation
IsConstructed == pc \notin {"new", "generate", "agents", "failed"}

(* C14: with num_agents = 0 the constructor and step() never fail, however  *)
(* many steps are made, and on the empty roster get_rankings() returns the  *)
(* empty list and get_stats() is defined (its average divides by nothing)   *)
(* and reports total, average, max and min score as 0.                      *)
C14_EmptyRosterStats ==
    params.num_agents = 0 =>
        /\ pc # "failed"
        /\ IsConstructed =>
              /\ agents = <<>>
              /\ GetRankings(agents) = <<>>
              /\ LET stats == GetStats(agents, env, step_count)
                 IN  /\ stats.num_agents = 0
                     /\ stats.total_score = 0
                     /\ stats.average_score[2] # 0
                     /\ stats.average_score[1] = 0
                     /\ stats.max_score = 0
                     /\ stats.min_score = 0
                     /\ stats.agent_stats = <<>>

\* A simulation without agents, on a grid that holds a resource, has made two steps
C14_Witness ==
    /\ params.num_agents = 0
    /\ pc = "idle"
    /\ step_count = 2
    /\ Len(history) = 2
    /\ DOMAIN env.resources # {}
    /\ GetStats(agents, env, step_count).steps_completed = 2

(* C15: in every reachable state get_rankings() returns a permutation of    *)
(* the roster ordered by score descending, and agents of equal score        *)
(* appear in their roster (creation) order.                                 *)
C15_RankingsStable ==
    LET ranked == GetRankings(agents)
    IN  /\ Len(ranked) = Len(agents)
        /\ { ranked[m] : m \in DOMAIN ranked } = DOMAIN agents
        /\ \A m \in DOMAIN ranked, n \in DOMAIN ranked :
              m < n =>
                 \/ agents[ranked[m]].score > agents[ranked[n]].score
                 \/ /\ agents[ranked[m]].score = agents[ranked[n]].score
                    /\ ranked[m] < ranked[n]

\* The last of three agents leads, and the two it overtook are tied
C15_Witness ==
    /\ pc = "idle"
    /\ Len(agents) = 3
    /\ agents[1].score = agents[2].score
    /\ agents[3].score > agents[1].score
    /\ GetRankings(agents) = <<3, 1, 2>>

\* The tags Agent.move recognises
KnownTags == {"random", "greedy", "cooperative"}

(* C16: an agent whose strategy tag is not random, greedy or cooperative,   *)
(* created by the constructor at a position in the grid, never changes      *)
(* position in any step of any call; creating and moving it raises no       *)
(* error; and in its turn of the move loop it collects what lies at that    *)
(* same position.                                                           *)
C16_UnknownTagStaysPut ==
    /\ []((/\ ValidParams
            /\ \E m \in DOMAIN params.strategies : params.strategies[m] \notin KnownTags)
             => pc # "failed")
    /\ [][ \A k \in DOMAIN agents :
             agents[k].strategy \notin KnownTags =>
                /\ k \in DOMAIN agents'
                /\ agents'[k].position = agents[k].position
                /\ (MoveStep /\ idx = k) =>
                      collected' = Append(collected,
                                          ResourceAt(env.resources, agents[k].position)) ]_vars

\* On a grid of four cells an agent with an unknown tag has collected a
\* resource and interacted in each of two steps
C16_Witness ==
    /\ pc = "idle"
    /\ step_count = 2
    /\ env.grid_size = 2
    /\ Len(agents) = 2
    /\ agents[1].strategy = "lazy"
    /\ agents[1].resources_collected = 1
    /\ agents[1].interactions = 2

(* C17: the coordinates of a cooperative agent standing in the grid never   *)
(* decrease: every step of a step() call leaves each of x and y as it was   *)
(* or one greater, and changes them only in the agent's own turn of the     *)
(* move loop, which comes once per step() call.                             *)
C17_CooperativeNeverDecreases ==
    [][ \A k \in DOMAIN agents :
          (agents[k].strategy = "cooperative" /\ InGrid(agents[k].position, env.grid_size)
             /\ pc \in {"move", "interact", "respawn", "record", "run"}) =>
             /\ k \in DOMAIN agents'
             /\ agents'[k].position[1] - agents[k].position[1] \in {0, 1}
             /\ agents'[k].position[2] - agents[k].position[2] \in {0, 1}
             /\ agents'[k].position # agents[k].position => (MoveStep /\ idx = k) ]_vars

\* A cooperative agent has moved from (0, 0) to (1, 1) in one step
C17_Witness ==
    /\ pc = "move"
    /\ idx = 2
    /\ history = <<>>
    /\ agents[1].strategy = "cooperative"
    /\ 1 \in DOMAIN placed
    /\ placed[1] = <<0, 0>>
    /\ agents[1].position = <<1, 1>>

\* 1 if a collected value counts as a resource, else 0
Credit(value) == IF value > 0 THEN 1 ELSE 0

(* C18: within one step() a resource is credited to at most one agent.  In  *)
(* its turn of the move loop an agent receives exactly what lies on the     *)
(* cell it arrives at (score += value, resources_collected += 1 and the     *)
(* step's count += 1 if there is a resource, nothing otherwise), no other   *)
(* agent is credited, and the cell is left empty; so of several agents      *)
(* that end their move on one cell only the earliest of the roster can      *)
(* have received its resource, and when the interaction phase starts no     *)
(* agent stands on a resource.                                              *)
C18_ResourceCreditedOnce ==
    /\ []((pc = "move" \/ pc = "interact") =>
            /\ \A k \in DOMAIN collected, m \in DOMAIN collected :
                  (k < m /\ agents[k].position = agents[m].position) => collected[m] = 0
            /\ \A k \in DOMAIN collected : agents[k].position \notin DOMAIN env.resources)
    /\ [][ MoveStep =>
             LET value == ResourceAt(env.resources, agents'[idx].position)
             IN  /\ agents'[idx].score = agents[idx].score + value
                 /\ agents'[idx].resources_collected =
                       agents[idx].resources_collected + Credit(value)
                 /\ step_results'.resources_collected =
                       step_results.resources_collected + Credit(value)
                 /\ \A k \in (DOMAIN agents) \ {idx} : agents'[k] = agents[k]
                 /\ agents'[idx].position \notin DOMAIN env'.resources ]_vars

\* Three agents ended their move on one cell and only the first got its resource
C18_Witness ==
    /\ pc = "interact"
    /\ Len(agents) = 3
    /\ agents[1].position = agents[2].position
    /\ agents[2].position = agents[3].position
    /\ collected[1] >= 1
    /\ collected[2] = 0
    /\ collected[3] = 0
    /\ step_results.resources_collected = 1
    /\ agents[1].resources_collected = 1
    /\ agents[2].resources_collected = 0

RECURSIVE SumSeq(_)
SumSeq(s) == IF Len(s) = 0 THEN 0 ELSE Head(s) + SumSeq(Tail(s))

(* C19: between calls, after any sequence of step() calls, the agents'      *)
(* counters agree with the history: the sum of the agents' interactions is  *)
(* twice the sum of the interactions counts of the history records, and     *)
(* the sum of the agents' resources_collected is the sum of the             *)
(* resources_collected counts of the history records.                       *)
C19_CountersAgreeWithHistory ==
    pc \in {"idle", "run"} =>
        /\ SumSeq([k \in DOMAIN agents |-> agents[k].interactions])
              = 2 * SumSeq([h \in DOMAIN history |-> history[h].interactions])
        /\ SumSeq([k \in DOMAIN agents |-> agents[k].resources_collected])
              = SumSeq([h \in DOMAIN history |-> history[h].resources_collected])

\* Two steps have been made, each with an interaction, and a resource was collected
C19_Witness ==
    /\ pc = "idle"
    /\ Len(history) = 2
    /\ history[1].interactions = 1
    /\ history[2].interactions = 1
    /\ history[1].resources_collected = 1
    /\ SumSeq([k \in DOMAIN agents |-> agents[k].interactions]) = 4

\* Every greedy agent of the constructed simulation stands on the center cell
GreedyAtCenter ==
    /\ IsConstructed
    /\ \A k \in DOMAIN agents :
          agents[k].strategy = "greedy" => agents[k].position = Center(env.grid_size)

\* The pairs of greedy agents, earlier agent first
GreedyPairs ==
    { pr \in (DOMAIN agents) \X (DOMAIN agents) :
        /\ pr[1] < pr[2]
        /\ agents[pr[1]].strategy = "greedy"
        /\ agents[pr[2]].strategy = "greedy" }

(* C20: while the caller keeps calling step(), every greedy agent           *)
(* eventually stands on the center cell (grid_size // 2, grid_size // 2)    *)
(* and stays there forever; it is there once grid_size step() calls have    *)
(* been made; an agent on the center never leaves it; and in every step     *)
(* that begins with all greedy agents on the center, each pair of them      *)
(* interacts.                                                               *)
C20_GreedyReachesCenter ==
    /\ <>[]GreedyAtCenter
    /\ []((pc = "idle" /\ step_count >= env.grid_size) => GreedyAtCenter)
    /\ []((GreedyAtCenter /\ (pc \in {"respawn", "record"}
                               \/ (pc = "idle" /\ history # <<>>)))
             => GreedyPairs \subseteq CallSet)
    /\ [][ \A k \in DOMAIN agents :
             (agents[k].strategy = "greedy" /\ agents[k].position = Center(env.grid_size)
                /\ IsConstructed) =>
                (k \in DOMAIN agents' /\ agents'[k].position = agents[k].position) ]_vars

\* Two greedy agents that were apart after the first step met on the center
\* of a grid of size 4 in the second and interacted
C20_Witness ==
    /\ pc = "idle"
    /\ env.grid_size = 4
    /\ step_count = 2
    /\ history[1].interactions = 0
    /\ history[2].interactions >= 1
    /\ GreedyAtCenter
    /\ GreedyPairs # {}

====
